---- MODULE Spec2Model ----
(***************************************************************************)
(* A model of the lexers of liquid/lex.py and liquid/expressions/loop/     *)
(* lex.py.  A source text is a sequence of one-character strings; offsets  *)
(* are 0-based as in Python, so the character at offset i is s[i + 1].     *)
(* Every regular expression of the source is modelled by what Python's     *)
(* backtracking matcher returns for it: the end offset of the match and    *)
(* the spans of its named groups.                                          *)
(***************************************************************************)
EXTENDS Integers, Sequences, FiniteSets, TLC

VARIABLES
    source,      \* the text being tokenized (sequence of characters)
    config,      \* template lexer: the delimiter 4-tuple; _tokenize: the grammar
    pos,         \* offset at which finditer looks for the next match
    line_count,  \* line_count (template, liquid) / line_num (_tokenize, loop)
    lstrip,      \* the template lexer's pending left-trim flag
    tokens,      \* the tokens yielded so far, in order
    status,      \* "running", "done" (iterator exhausted) or "error" (raised)
    last,        \* the match handled by the latest loop iteration
    err,         \* the LiquidSyntaxError raised, if any
    lookups,     \* number of operators[value] lookups made by _tokenize
    cache,       \* lru_cache of get_lexer: entries, least recently used first
    compiled,    \* number of compile_liquid_rules calls made so far
    requested,   \* number of distinct 4-tuples get_lexer was called with
    returned     \* what the latest get_lexer call returned

vars == <<source, config, pos, line_count, lstrip, tokens, status, last, err,
          lookups, cache, compiled, requested, returned>>

lexvars == <<source, config, pos, line_count, lstrip, tokens, status, last, err,
             lookups>>

cachevars == <<cache, compiled, requested, returned>>

(***************************************************************************)
(* Characters and strings                                                  *)
(***************************************************************************)
Lower == {"a","b","c","d","e","f","g","h","i","j","k","l","m",
          "n","o","p","q","r","s","t","u","v","w","x","y","z"}

Upper == {"A","B","C","D","E","F","G","H","I","J","K","L","M",
          "N","O","P","Q","R","S","T","U","V","W","X","Y","Z"}

Digit == {"0","1","2","3","4","5","6","7","8","9"}

\* \w
IsWord(c) == c \in Lower \cup Upper \cup Digit \cup {"_"}

\* \s, and the characters str.lstrip() / str.rstrip() remove
IsSpace(c) == c \in {" ", "\t", "\n", "\r", "\f"}

\* [ \t]
IsBlank(c) == c \in {" ", "\t"}

\* the character at 0-based offset i, "" past the end
At(s, i) == IF i >= 0 /\ i < Len(s) THEN s[i + 1] ELSE ""

\* s[a:b]
Sub(s, a, b) == IF b > a THEN SubSeq(s, a + 1, b) ELSE <<>>

\* s.startswith(d, i)
StartsWithAt(s, i, d) ==
    /\ i + Len(d) <= Len(s)
    /\ \A k \in 1..Len(d) : s[i + k] = d[k]

\* the offset after the longest run of \s characters starting at i
RECURSIVE SkipSpace(_, _)
SkipSpace(s, i) ==
    IF i < Len(s) /\ IsSpace(s[i + 1]) THEN SkipSpace(s, i + 1) ELSE i

\* the offset after the longest run of \w characters starting at i
RECURSIVE SkipWord(_, _)
SkipWord(s, i) ==
    IF i < Len(s) /\ IsWord(s[i + 1]) THEN SkipWord(s, i + 1) ELSE i

\* the offset after the longest run of [ \t] characters starting at i
RECURSIVE SkipBlank(_, _)
SkipBlank(s, i) ==
    IF i < Len(s) /\ IsBlank(s[i + 1]) THEN SkipBlank(s, i + 1) ELSE i

\* value.count("\n")
RECURSIVE CountNewlines(_)
CountNewlines(v) ==
    IF v = <<>> THEN 0
    ELSE (IF Head(v) = "\n" THEN 1 ELSE 0) + CountNewlines(Tail(v))

\* value.lstrip()
LStripStr(v) == Sub(v, SkipSpace(v, 0), Len(v))

\* value.rstrip()
RECURSIVE RStripStr(_)
RStripStr(v) ==
    IF v # <<>> /\ IsSpace(v[Len(v)]) THEN RStripStr(Sub(v, 0, Len(v) - 1)) ELSE v

\* "$" without re.MULTILINE: at the end, or just before a final newline
AtDollar(s, i) == i = Len(s) \/ (i = Len(s) - 1 /\ s[Len(s)] = "\n")

Token(linenum, type, value) == [linenum |-> linenum, type |-> type, value |-> value]

NoMatch == [kind |-> "none", start |-> 0, end |-> 0]

NoError == [msg |-> "", value |-> <<>>, linenum |-> 0]

LiquidSyntaxError(msg, value, linenum) ==
    [msg |-> msg, value |-> value, linenum |-> linenum]

(***************************************************************************)
(* The token kinds of the module liquid.token                              *)
(***************************************************************************)
token ==
    [TOKEN_STATEMENT |-> "statement",
     TOKEN_TAG |-> "tag",
     TOKEN_EXPRESSION |-> "expression",
     TOKEN_LITERAL |-> "literal",
     TOKEN_ILLEGAL |-> "illegal",
     TOKEN_INTEGER |-> "integer",
     TOKEN_FLOAT |-> "float",
     TOKEN_STRING |-> "string",
     TOKEN_IDENTIFIER |-> "identifier",
     TOKEN_DOT |-> "dot",
     TOKEN_LBRACKET |-> "lbracket",
     TOKEN_RBRACKET |-> "rbracket",
     TOKEN_NEGATIVE |-> "negative",
     TOKEN_COMMA |-> "comma",
     TOKEN_COLON |-> "colon",
     TOKEN_PIPE |-> "pipe",
     TOKEN_ASSIGN |-> "assign",
     TOKEN_RANGE |-> "range",
     TOKEN_LPAREN |-> "lparen",
     TOKEN_RPAREN |-> "rparen",
     TOKEN_SKIP |-> "skip",
     TOKEN_NEWLINE |-> "newline",
     TOKEN_IDENTINDEX |-> "identindex",
     TOKEN_IDENTSTRING |-> "identstring",
     TOKEN_TRUE |-> "true",
     TOKEN_FALSE |-> "false",
     TOKEN_NIL |-> "nil",
     TOKEN_EMPTY |-> "empty",
     TOKEN_AND |-> "and",
     TOKEN_OR |-> "or",
     TOKEN_CONTAINS |-> "contains",
     TOKEN_IN |-> "in",
     TOKEN_OFFSET |-> "offset",
     TOKEN_LIMIT |-> "limit",
     TOKEN_REVERSED |-> "reversed",
     TOKEN_COLS |-> "cols",
     TOKEN_CONTINUE |-> "continue",
     TOKEN_WITH |-> "with",
     TOKEN_FOR |-> "for",
     TOKEN_AS |-> "as",
     TOKEN_BY |-> "by"]

(***************************************************************************)
(* compile_liquid_rules: the four rules of the template lexer.  c is the   *)
(* delimiter configuration, s the source, p the offset tried.              *)
(***************************************************************************)
DefaultConfig ==
    [tag_s |-> <<"{", "%">>, tag_e |-> <<"%", "}">>,
     stmt_s |-> <<"{", "{">>, stmt_e |-> <<"}", "}">>]

\* an ordered alternative: the first branch if it matches, else the second
Alt(m, other) == IF m.kind # "none" THEN m ELSE other

\* (?P<rss>-?){close} at offset k, after the greedy \s* has run: the optional
\* trim marker is tried first, then the closing delimiter alone.
CloseFrom(s, k, close) ==
    IF At(s, k) = "-" /\ StartsWithAt(s, k + 1, close)
    THEN [ok |-> TRUE, trim |-> TRUE, end |-> k + 1 + Len(close)]
    ELSE IF StartsWithAt(s, k, close)
    THEN [ok |-> TRUE, trim |-> FALSE, end |-> k + Len(close)]
    ELSE [ok |-> FALSE, trim |-> FALSE, end |-> 0]

\* \s*(?P<rss>-?){close} tried at offset e
CloseAt(s, e, close) == CloseFrom(s, SkipSpace(s, e), close)

\* (?P<x>.*?)\s*(?P<t>-?){close} from offset e: the lazy group takes the
\* fewest characters after which the tail matches (Len(s) + 1: no match).
RECURSIVE LazyBodyEnd(_, _, _)
LazyBodyEnd(s, e, close) ==
    IF e > Len(s) \/ CloseAt(s, e, close).ok THEN e
    ELSE LazyBodyEnd(s, e + 1, close)

\* ("RAW", {tag_s}\s*raw\s*{tag_e}(?P<raw>.*?){tag_s}\s*endraw\s*{tag_e})
\* {tag_s}\s*word\s*{tag_e} at offset p: the offset after it, or -1
RawTagEnd(s, c, b) ==
    IF StartsWithAt(s, b, c.tag_e) THEN b + Len(c.tag_e) ELSE -1

RawWordAt(s, c, word, a) ==
    IF StartsWithAt(s, a, word) THEN RawTagEnd(s, c, SkipSpace(s, a + Len(word)))
    ELSE -1

RawWordEnd(s, p, c, word) ==
    IF StartsWithAt(s, p, c.tag_s)
    THEN RawWordAt(s, c, word, SkipSpace(s, p + Len(c.tag_s)))
    ELSE -1

\* (?P<raw>.*?) is lazy: it ends at the first offset where the endraw tag matches
RECURSIVE EndRawAt(_, _, _)
EndRawAt(s, e, c) ==
    IF e > Len(s) \/ RawWordEnd(s, e, c, <<"e", "n", "d", "r", "a", "w">>) >= 0
    THEN e
    ELSE EndRawAt(s, e + 1, c)

RawClose(s, p, c, d, e) ==
    IF e > Len(s) THEN NoMatch
    ELSE [kind |-> "RAW", start |-> p,
          end |-> RawWordEnd(s, e, c, <<"e", "n", "d", "r", "a", "w">>),
          raw |-> Sub(s, d, e)]

RawBody(s, p, c, d) ==
    IF d < 0 THEN NoMatch ELSE RawClose(s, p, c, d, EndRawAt(s, d, c))

RawRule(s, p, c) == RawBody(s, p, c, RawWordEnd(s, p, c, <<"r", "a", "w">>))

\* (TOKEN_STATEMENT, {stmt_s}-?\s*(?P<stmt>.*?)\s*(?P<rss>-?){stmt_e})
\* b: where (?P<stmt>...) starts, e: where it ends, t: the tail's match
StatementMatch(s, p, b, e, t) ==
    [kind |-> token.TOKEN_STATEMENT, start |-> p, end |-> t.end,
     stmt |-> Sub(s, b, e), rss |-> t.trim]

StatementClose(s, p, c, b, e) ==
    IF e > Len(s) THEN NoMatch
    ELSE StatementMatch(s, p, b, e, CloseAt(s, e, c.stmt_e))

StatementBody(s, p, c, b) ==
    StatementClose(s, p, c, b, LazyBodyEnd(s, b, c.stmt_e))

\* a: the offset after {stmt_s}-?
StatementFrom(s, p, c, a) == StatementBody(s, p, c, SkipSpace(s, a))

\* -? is greedy: the marker is taken first, and given back if that fails
StatementOpen(s, p, c, a) ==
    Alt(IF At(s, a) = "-" THEN StatementFrom(s, p, c, a + 1) ELSE NoMatch,
        StatementFrom(s, p, c, a))

StatementRule(s, p, c) ==
    IF StartsWithAt(s, p, c.stmt_s) THEN StatementOpen(s, p, c, p + Len(c.stmt_s))
    ELSE NoMatch

\* ("TAG", {tag_s}-?\s*(?P<name>\w*)\s*(?P<expr>.*?)\s*(?P<rst>-?){tag_e})
\* b..n: (?P<name>\w*), x..e: (?P<expr>.*?), t: the tail's match
TagMatch(s, p, b, n, x, e, t) ==
    [kind |-> "TAG", start |-> p, end |-> t.end,
     name |-> Sub(s, b, n), expr |-> Sub(s, x, e), rst |-> t.trim]

TagClose(s, p, c, b, n, x, e) ==
    IF e > Len(s) THEN NoMatch
    ELSE TagMatch(s, p, b, n, x, e, CloseAt(s, e, c.tag_e))

TagExpr(s, p, c, b, n, x) ==
    TagClose(s, p, c, b, n, x, LazyBodyEnd(s, x, c.tag_e))

TagName(s, p, c, b, n) == TagExpr(s, p, c, b, n, SkipSpace(s, n))

TagBody(s, p, c, b) == TagName(s, p, c, b, SkipWord(s, b))

TagFrom(s, p, c, a) == TagBody(s, p, c, SkipSpace(s, a))

TagOpen(s, p, c, a) ==
    Alt(IF At(s, a) = "-" THEN TagFrom(s, p, c, a + 1) ELSE NoMatch,
        TagFrom(s, p, c, a))

TagRule(s, p, c) ==
    IF StartsWithAt(s, p, c.tag_s) THEN TagOpen(s, p, c, p + Len(c.tag_s))
    ELSE NoMatch

\* (TOKEN_LITERAL, .+?(?=(({tag_s}|{stmt_s})(?P<rstrip>-?))|$))
\* ({tag_s}|{stmt_s}) at offset e: the length of the delimiter matched, or 0
OpenLen(s, e, c) ==
    IF StartsWithAt(s, e, c.tag_s) THEN Len(c.tag_s)
    ELSE IF StartsWithAt(s, e, c.stmt_s) THEN Len(c.stmt_s)
    ELSE 0

\* .+? is lazy: the first offset after p where the lookahead holds
RECURSIVE LiteralEnd(_, _, _)
LiteralEnd(s, e, c) ==
    IF e > Len(s) \/ OpenLen(s, e, c) > 0 \/ AtDollar(s, e) THEN e
    ELSE LiteralEnd(s, e + 1, c)

\* (?P<rstrip>-?) is set only through the first branch of the lookahead
LiteralMatch(s, p, e, open) ==
    IF e > Len(s) THEN NoMatch
    ELSE [kind |-> token.TOKEN_LITERAL, start |-> p, end |-> e,
          rstrip |-> open > 0 /\ At(s, e + open) = "-"]

LiteralClose(s, p, c, e) == LiteralMatch(s, p, e, OpenLen(s, e, c))

LiteralRule(s, p, c) == LiteralClose(s, p, c, LiteralEnd(s, p + 1, c))

\* _compile_rules: the alternation tries the rules in order at one offset
LiquidRulesAt(s, p, c) ==
    Alt(RawRule(s, p, c),
        Alt(StatementRule(s, p, c),
            Alt(TagRule(s, p, c), LiteralRule(s, p, c))))

\* rules.finditer(source): the next match is the leftmost one at or after p
RECURSIVE NextTemplateMatch(_, _, _)
NextTemplateMatch(s, p, c) ==
    IF p > Len(s) THEN NoMatch
    ELSE Alt(LiquidRulesAt(s, p, c), NextTemplateMatch(s, p + 1, c))

(***************************************************************************)
(* _tokenize_template: one action per kind of match; each action is one    *)
(* iteration of the loop over rules.finditer(source).                      *)
(***************************************************************************)
TemplateMatch == NextTemplateMatch(source, pos, config)

\* value = match.group()
MatchText(m) == Sub(source, m.start, m.end)

\* (mutation: the line number taken after the counter was advanced)
TemplateLineNumAfter(count, value) == count + CountNewlines(value)

\* line_num = line_count, taken before line_count += value.count("\n")
TemplateLineNum(count, value) == count

\* the bookkeeping every iteration shares
\* (trim: the match ended with a trim marker before its closing delimiter)
Consume(m, yielded, trim) ==
    /\ pos' = m.end
    /\ line_count' = line_count + CountNewlines(MatchText(m))
    /\ tokens' = tokens \o yielded
    /\ last' = [kind |-> m.kind, from |-> pos, start |-> m.start, end |-> m.end,
                first |-> Len(tokens), lstrip |-> lstrip, trim |-> trim,
                prev |-> last.kind, prevtrim |-> last.trim]
    /\ UNCHANGED <<source, config, lookups, cachevars>>

\* kind == TOKEN_STATEMENT
StatementTokens(linenum, m) == <<Token(linenum, token.TOKEN_STATEMENT, m.stmt)>>

OnStatement(m) ==
    /\ m.kind = token.TOKEN_STATEMENT
    /\ Consume(m, StatementTokens(TemplateLineNum(line_count, MatchText(m)), m),
               m.rss)
    /\ lstrip' = m.rss
    /\ UNCHANGED <<status, err>>

TemplateStatement == status = "running" /\ OnStatement(TemplateMatch)

\* (mutation: the "if not value: continue" is dropped)
TagTokensAlways(linenum, m) ==
    <<Token(linenum, token.TOKEN_TAG, m.name), Token(linenum, token.TOKEN_EXPRESSION, m.expr)>>

\* kind == "TAG": the tag token, then the expression token unless "not value"
TagTokens(linenum, m) ==
    <<Token(linenum, token.TOKEN_TAG, m.name)>> \o
    (IF m.expr # <<>> THEN <<Token(linenum, token.TOKEN_EXPRESSION, m.expr)>> ELSE <<>>)

OnTag(m) ==
    /\ m.kind = "TAG"
    /\ Consume(m, TagTokens(TemplateLineNum(line_count, MatchText(m)), m), m.rst)
    /\ lstrip' = m.rst
    /\ UNCHANGED <<status, err>>

TemplateTag == status = "running" /\ OnTag(TemplateMatch)

\* kind == "RAW"
RawTokens(linenum, m) == <<Token(linenum, token.TOKEN_LITERAL, m.raw)>>

OnRaw(m) ==
    /\ m.kind = "RAW"
    /\ Consume(m, RawTokens(TemplateLineNum(line_count, MatchText(m)), m), FALSE)
    /\ UNCHANGED <<lstrip, status, err>>

TemplateRaw == status = "running" /\ OnRaw(TemplateMatch)

\* kind == TOKEN_LITERAL: the trimming
RStripIf(value, right) == IF right THEN RStripStr(value) ELSE value

LiteralValue(value, left, right) ==
    RStripIf(IF left THEN LStripStr(value) ELSE value, right)

\* value.startswith(r"{{") or value.startswith(r"{%")
Unterminated(value) ==
    StartsWithAt(value, 0, <<"{", "{">>) \/ StartsWithAt(value, 0, <<"{", "%">>)

LiteralTokens(linenum, value) ==
    IF value = <<>> \/ Unterminated(value) THEN <<>>
    ELSE <<Token(linenum, token.TOKEN_LITERAL, value)>>

OnLiteralValue(m, value) ==
    /\ Consume(m, LiteralTokens(TemplateLineNum(line_count, MatchText(m)), value),
               FALSE)
    /\ IF value # <<>> /\ Unterminated(value)
       THEN /\ status' = "error"
            /\ err' = LiquidSyntaxError("expected '}}', found 'eof'", <<>>,
                                        line_count')
       ELSE UNCHANGED <<status, err>>
    /\ UNCHANGED lstrip

OnLiteral(m) ==
    /\ m.kind = token.TOKEN_LITERAL
    /\ OnLiteralValue(m, LiteralValue(MatchText(m), lstrip, m.rstrip))

TemplateLiteral == status = "running" /\ OnLiteral(TemplateMatch)

\* finditer is exhausted: the generator returns
TemplateEnd ==
    /\ status = "running"
    /\ TemplateMatch.kind = "none"
    /\ status' = "done"
    /\ UNCHANGED <<source, config, pos, line_count, lstrip, tokens, last, err,
                   lookups, cachevars>>

TemplateNext ==
    \/ TemplateStatement
    \/ TemplateTag
    \/ TemplateRaw
    \/ TemplateLiteral
    \/ TemplateEnd

(***************************************************************************)
(* Inputs of the template lexer: a delimiter configuration, and a source   *)
(* that is the concatenation of at most MaxPieces pieces.                  *)
(***************************************************************************)
MaxPieces == 4

MaxTrimPieces == 5

\* delimiters as get_lexer accepts them: statements in [[ ]], tags unchanged
CustomConfig ==
    [tag_s |-> <<"{", "%">>, tag_e |-> <<"%", "}">>,
     stmt_s |-> <<"[", "[">>, stmt_e |-> <<"]", "]">>]

TemplateConfigs == {DefaultConfig, CustomConfig}

\* the delimiters of c, the default statement opening, the raw tags of c, and
\* a trim marker, a space, a newline and a word character
PiecesOf(c) ==
    {c.tag_s, c.tag_e, c.stmt_s, c.stmt_e, DefaultConfig.stmt_s,
     <<"-">>, <<" ">>, <<"\n">>, <<"x">>,
     c.tag_s \o <<"r", "a", "w">> \o c.tag_e,
     c.tag_s \o <<"e", "n", "d", "r", "a", "w">> \o c.tag_e}

\* pieces for whitespace control: closing delimiters with their trim marker
TrimPieces ==
    {<<"{", "%">>, <<"%", "}">>, <<"-", "%", "}">>, <<"{", "{">>,
     <<"-", "}", "}">>, <<" ">>, <<"\n">>, <<"x">>,
     <<"{", "%", "r", "a", "w", "%", "}">>,
     <<"{", "%", "e", "n", "d", "r", "a", "w", "%", "}">>}

RECURSIVE Concat(_)
Concat(ps) == IF ps = <<>> THEN <<>> ELSE Head(ps) \o Concat(Tail(ps))

\* source is the concatenation of at most n of the pieces
SourceFrom(pieces, n) ==
    \E k \in 0..n : \E ps \in [1..k -> pieces] : source = Concat(ps)

NoCache ==
    /\ cache = <<>>
    /\ compiled = 0
    /\ requested = 0
    /\ returned = [key |-> 0, lexer |-> 0]

NoLast ==
    [kind |-> "none", from |-> 0, start |-> 0, end |-> 0, first |-> 0,
     lstrip |-> FALSE, trim |-> FALSE, prev |-> "none", prevtrim |-> FALSE]

LexInit(pieces, n, c) ==
    /\ SourceFrom(pieces, n)
    /\ config = c
    /\ pos = 0
    /\ line_count = 1
    /\ lstrip = FALSE
    /\ tokens = <<>>
    /\ status = "running"
    /\ last = NoLast
    /\ err = NoError
    /\ lookups = 0
    /\ NoCache

TemplateInit ==
    \E c \in TemplateConfigs : LexInit(PiecesOf(c), MaxPieces, c)

TemplateSpec == TemplateInit /\ [][TemplateNext]_vars

TrimInit == LexInit(TrimPieces, MaxTrimPieces, DefaultConfig)

TrimSpec == TrimInit /\ [][TemplateNext]_vars

(***************************************************************************)
(* Token kinds (liquid.token) and the operator table used by the           *)
(* expression lexers                                                       *)
(***************************************************************************)
\* the text of a keyword kind: a keyword constant is the string it matches
Spelling(kind) ==
    CASE kind = token.TOKEN_TRUE -> <<"t", "r", "u", "e">>
      [] kind = token.TOKEN_FALSE -> <<"f", "a", "l", "s", "e">>
      [] kind = token.TOKEN_NIL -> <<"n", "i", "l">>
      [] kind = token.TOKEN_EMPTY -> <<"e", "m", "p", "t", "y">>
      [] kind = token.TOKEN_AND -> <<"a", "n", "d">>
      [] kind = token.TOKEN_OR -> <<"o", "r">>
      [] kind = token.TOKEN_CONTAINS -> <<"c", "o", "n", "t", "a", "i", "n", "s">>
      [] kind = token.TOKEN_IN -> <<"i", "n">>
      [] kind = token.TOKEN_OFFSET -> <<"o", "f", "f", "s", "e", "t">>
      [] kind = token.TOKEN_LIMIT -> <<"l", "i", "m", "i", "t">>
      [] kind = token.TOKEN_REVERSED -> <<"r", "e", "v", "e", "r", "s", "e", "d">>
      [] kind = token.TOKEN_COLS -> <<"c", "o", "l", "s">>
      [] kind = token.TOKEN_CONTINUE -> <<"c", "o", "n", "t", "i", "n", "u", "e">>
      [] kind = token.TOKEN_WITH -> <<"w", "i", "t", "h">>
      [] kind = token.TOKEN_FOR -> <<"f", "o", "r">>
      [] kind = token.TOKEN_AS -> <<"a", "s">>
      [] kind = token.TOKEN_BY -> <<"b", "y">>

\* operators: the text of each comparison operator and its kind
operators ==
    (<<"=", "=">> :> "==") @@ (<<"!", "=">> :> "!=") @@ (<<"<", ">">> :> "<>")
    @@ (<<"<">> :> "<") @@ (<<">">> :> ">")
    @@ (<<"<", "=">> :> "<=") @@ (<<">", "=">> :> ">=")

(***************************************************************************)
(* Patterns of the expression rules.  PatEnd is the offset after the match *)
(* of a pattern at offset p, or -1.                                        *)
(***************************************************************************)
Lit(text) == [re |-> "lit", text |-> text]

Re(name) == [re |-> name, text |-> <<>>]

Rule(kind, pat) == [kind |-> kind, pat |-> pat]

RECURSIVE SkipDigit(_, _)
SkipDigit(s, i) ==
    IF i < Len(s) /\ s[i + 1] \in Digit THEN SkipDigit(s, i + 1) ELSE i

\* [a-zA-Z0-9_\-]* and, with q, [a-zA-Z0-9_\-?]*
IsIdentTail(ch, q) ==
    ch \in Lower \cup Upper \cup Digit \cup {"_", "-"} \/ (q /\ ch = "?")

RECURSIVE SkipIdentTail(_, _, _)
SkipIdentTail(s, i, q) ==
    IF i < Len(s) /\ IsIdentTail(s[i + 1], q) THEN SkipIdentTail(s, i + 1, q)
    ELSE i

\* [ \t]+ and, with r, [ \t\r]+
RECURSIVE SkipBlankR(_, _, _)
SkipBlankR(s, i, r) ==
    IF i < Len(s) /\ (IsBlank(s[i + 1]) \/ (r /\ s[i + 1] = "\r"))
    THEN SkipBlankR(s, i + 1, r)
    ELSE i

\* the least offset at or after i holding character ch, Len(s) if none
RECURSIVE FindChar(_, _, _)
FindChar(s, i, ch) ==
    IF i >= Len(s) \/ s[i + 1] = ch THEN i ELSE FindChar(s, i + 1, ch)

NonEmpty(p, e) == IF e > p THEN e ELSE -1

\* \d+\.\d* with d the offset after \d+
FloatEnd(s, p, d) ==
    IF d > p /\ At(s, d) = "." THEN SkipDigit(s, d + 1) ELSE -1

\* STRING_PATTERN (?P<quote>["'])(?P<quoted>.*?)(?P=quote) with re.DOTALL:
\* e is the offset of the first later occurrence of the opening quote
StringClose(s, e) == IF e < Len(s) THEN e + 1 ELSE -1

StringEnd(s, p) ==
    IF At(s, p) \in {"\"", "'"} THEN StringClose(s, FindChar(s, p + 1, At(s, p)))
    ELSE -1

\* \w[a-zA-Z0-9_\-]* (q: the class also holds "?")
IdentEnd(s, p, q) == IF IsWord(At(s, p)) THEN SkipIdentTail(s, p + 1, q) ELSE -1

IsOpChar(ch) == ch \in {"!", "=", "<", ">"}

\* [!=<>]{1,2}
OpEnd(s, p) ==
    IF ~IsOpChar(At(s, p)) THEN -1
    ELSE IF IsOpChar(At(s, p + 1)) THEN p + 2
    ELSE p + 1

\* -?\d+\.(?!\.)\d* with a the offset after -? and d the offset after \d+
SignedFloatEnd(s, a, d) ==
    IF d > a /\ At(s, d) = "." /\ At(s, d + 1) # "." THEN SkipDigit(s, d + 1)
    ELSE -1

\* -?\d+\b
SignedIntEnd(s, a, d) == IF d > a /\ ~IsWord(At(s, d)) THEN d ELSE -1

AfterSign(s, p) == IF At(s, p) = "-" THEN p + 1 ELSE p

\* IDENTINDEX_PATTERN, IDENTSTRING_PATTERN (liquid.expressions.common): a
\* bracketed integer or quoted string after an identifier.  b is the offset
\* after "[" and whitespace, e the offset after the index.
BracketClose(s, e) ==
    IF e >= 0 /\ At(s, SkipSpace(s, e)) = "]" THEN SkipSpace(s, e) + 1 ELSE -1

IndexBody(s, b) == NonEmpty(AfterSign(s, b), SkipDigit(s, AfterSign(s, b)))

BracketOpen(s, n) == IF n >= 0 /\ At(s, n) = "[" THEN SkipSpace(s, n + 1) ELSE -1

IdentIndexEnd(s, p) ==
    IF BracketOpen(s, IdentEnd(s, p, FALSE)) < 0 THEN -1
    ELSE BracketClose(s, IndexBody(s, BracketOpen(s, IdentEnd(s, p, FALSE))))

IdentStringEnd(s, p) ==
    IF BracketOpen(s, IdentEnd(s, p, FALSE)) < 0 THEN -1
    ELSE BracketClose(s, StringEnd(s, BracketOpen(s, IdentEnd(s, p, FALSE))))

PatEnd(pat, s, p) ==
    CASE pat.re = "lit" ->
             IF StartsWithAt(s, p, pat.text) THEN p + Len(pat.text) ELSE -1
      [] pat.re = "digits" -> NonEmpty(p, SkipDigit(s, p))
      [] pat.re = "float" -> FloatEnd(s, p, SkipDigit(s, p))
      [] pat.re = "string" -> StringEnd(s, p)
      [] pat.re = "ident" -> IdentEnd(s, p, FALSE)
      [] pat.re = "identq" -> IdentEnd(s, p, TRUE)
      [] pat.re = "blanks" -> NonEmpty(p, SkipBlankR(s, p, FALSE))
      [] pat.re = "blanksr" -> NonEmpty(p, SkipBlankR(s, p, TRUE))
      [] pat.re = "op" -> OpEnd(s, p)
      [] pat.re = "any" -> IF p < Len(s) THEN p + 1 ELSE -1
      [] pat.re = "sfloat" ->
             SignedFloatEnd(s, AfterSign(s, p), SkipDigit(s, AfterSign(s, p)))
      [] pat.re = "sint" ->
             SignedIntEnd(s, AfterSign(s, p), SkipDigit(s, AfterSign(s, p)))
      [] pat.re = "identindex" -> IdentIndexEnd(s, p)
      [] pat.re = "identstring" -> IdentStringEnd(s, p)

IDENTIFIER_PATTERN == Re("ident")

STRING_PATTERN == Re("string")


(***************************************************************************)
(* The rule tables and keyword sets of liquid/lex.py                       *)
(***************************************************************************)
identifier_rules ==
    << Rule(token.TOKEN_INTEGER, Re("digits")),
       Rule(token.TOKEN_STRING, STRING_PATTERN),
       Rule(token.TOKEN_IDENTIFIER, IDENTIFIER_PATTERN),
       Rule(token.TOKEN_DOT, Lit(<<".">>)),
       Rule(token.TOKEN_LBRACKET, Lit(<<"[">>)),
       Rule(token.TOKEN_RBRACKET, Lit(<<"]">>)),
       Rule("NEWLINE", Lit(<<"\n">>)),
       Rule("SKIP", Re("blanks")),
       Rule(token.TOKEN_ILLEGAL, Re("any")) >>

filtered_expression_rules ==
    << Rule(token.TOKEN_FLOAT, Re("float")),
       Rule(token.TOKEN_INTEGER, Re("digits")),
       Rule(token.TOKEN_NEGATIVE, Lit(<<"-">>)),
       Rule(token.TOKEN_STRING, STRING_PATTERN),
       Rule(token.TOKEN_IDENTIFIER, IDENTIFIER_PATTERN),
       Rule(token.TOKEN_DOT, Lit(<<".">>)),
       Rule(token.TOKEN_COMMA, Lit(<<",">>)),
       Rule(token.TOKEN_LBRACKET, Lit(<<"[">>)),
       Rule(token.TOKEN_RBRACKET, Lit(<<"]">>)),
       Rule(token.TOKEN_COLON, Lit(<<":">>)),
       Rule(token.TOKEN_PIPE, Lit(<<"|">>)),
       Rule("NEWLINE", Lit(<<"\n">>)),
       Rule("SKIP", Re("blanks")),
       Rule(token.TOKEN_ILLEGAL, Re("any")) >>

filtered_expression_keywords == {token.TOKEN_TRUE, token.TOKEN_FALSE, token.TOKEN_NIL, token.TOKEN_EMPTY}

assignment_expression_rules ==
    << Rule(token.TOKEN_ASSIGN, Lit(<<"=">>)) >> \o filtered_expression_rules

boolean_expression_rules ==
    << Rule(token.TOKEN_FLOAT, Re("float")),
       Rule(token.TOKEN_INTEGER, Re("digits")),
       Rule(token.TOKEN_NEGATIVE, Lit(<<"-">>)),
       Rule(token.TOKEN_STRING, STRING_PATTERN),
       Rule(token.TOKEN_IDENTIFIER, Re("identq")),
       Rule(token.TOKEN_DOT, Lit(<<".">>)),
       Rule(token.TOKEN_LBRACKET, Lit(<<"[">>)),
       Rule(token.TOKEN_RBRACKET, Lit(<<"]">>)),
       Rule(token.TOKEN_COLON, Lit(<<":">>)),
       Rule("NEWLINE", Lit(<<"\n">>)),
       Rule("OP", Re("op")),
       Rule("SKIP", Re("blanks")),
       Rule(token.TOKEN_ILLEGAL, Re("any")) >>

boolean_expression_keywords ==
    {token.TOKEN_TRUE, token.TOKEN_FALSE, token.TOKEN_NIL, token.TOKEN_EMPTY,
     token.TOKEN_AND, token.TOKEN_OR, token.TOKEN_CONTAINS}

loop_expression_rules ==
    << Rule(token.TOKEN_INTEGER, Re("digits")),
       Rule(token.TOKEN_IDENTIFIER, IDENTIFIER_PATTERN),
       Rule(token.TOKEN_RANGE, Lit(<<".", ".">>)),
       Rule(token.TOKEN_DOT, Lit(<<".">>)),
       Rule(token.TOKEN_LBRACKET, Lit(<<"[">>)),
       Rule(token.TOKEN_RBRACKET, Lit(<<"]">>)),
       Rule(token.TOKEN_LPAREN, Lit(<<"(">>)),
       Rule(token.TOKEN_RPAREN, Lit(<<")">>)),
       Rule(token.TOKEN_COLON, Lit(<<":">>)),
       Rule("NEWLINE", Lit(<<"\n">>)),
       Rule("SKIP", Re("blanks")),
       Rule(token.TOKEN_ILLEGAL, Re("any")) >>

loop_expression_keywords ==
    {token.TOKEN_IN, token.TOKEN_OFFSET, token.TOKEN_LIMIT, token.TOKEN_REVERSED, token.TOKEN_COLS}

include_expression_rules ==
    << Rule(token.TOKEN_FLOAT, Re("float")),
       Rule(token.TOKEN_INTEGER, Re("digits")),
       Rule(token.TOKEN_NEGATIVE, Lit(<<"-">>)),
       Rule(token.TOKEN_STRING, STRING_PATTERN),
       Rule(token.TOKEN_IDENTIFIER, Re("identq")),
       Rule(token.TOKEN_DOT, Lit(<<".">>)),
       Rule(token.TOKEN_COMMA, Lit(<<",">>)),
       Rule(token.TOKEN_LBRACKET, Lit(<<"[">>)),
       Rule(token.TOKEN_RBRACKET, Lit(<<"]">>)),
       Rule(token.TOKEN_COLON, Lit(<<":">>)),
       Rule("NEWLINE", Lit(<<"\n">>)),
       Rule("SKIP", Re("blanks")),
       Rule(token.TOKEN_ILLEGAL, Re("any")) >>

include_expression_keywords ==
    {token.TOKEN_TRUE, token.TOKEN_FALSE, token.TOKEN_NIL, token.TOKEN_EMPTY,
     token.TOKEN_WITH, token.TOKEN_FOR, token.TOKEN_AS}

\* the partial applications of _tokenize: rules and keywords of each
Partials ==
    [tokenize_identifier |->
         [rules |-> identifier_rules, keywords |-> {}],
     tokenize_loop_expression |->
         [rules |-> loop_expression_rules, keywords |-> loop_expression_keywords],
     tokenize_filtered_expression |->
         [rules |-> filtered_expression_rules,
          keywords |-> filtered_expression_keywords],
     tokenize_assignment_expression |->
         [rules |-> assignment_expression_rules,
          keywords |-> filtered_expression_keywords],
     tokenize_boolean_expression |->
         [rules |-> boolean_expression_rules,
          keywords |-> boolean_expression_keywords],
     tokenize_include_expression |->
         [rules |-> include_expression_rules,
          keywords |-> include_expression_keywords],
     tokenize_paginate_expression |->
         [rules |-> identifier_rules, keywords |-> {token.TOKEN_BY}]]

(***************************************************************************)
(* _compile_rules and finditer: the first rule, in table order, that       *)
(* matches at the leftmost offset where any rule matches                   *)
(***************************************************************************)
RECURSIVE FirstRule(_, _, _, _)
FirstRule(rules, i, s, p) ==
    IF i > Len(rules) THEN NoMatch
    ELSE IF PatEnd(rules[i].pat, s, p) >= 0
    THEN [kind |-> rules[i].kind, start |-> p, end |-> PatEnd(rules[i].pat, s, p)]
    ELSE FirstRule(rules, i + 1, s, p)

RECURSIVE NextRuleMatch(_, _, _)
NextRuleMatch(rules, s, p) ==
    IF p >= Len(s) THEN NoMatch
    ELSE IF FirstRule(rules, 1, s, p).kind # "none" THEN FirstRule(rules, 1, s, p)
    ELSE NextRuleMatch(rules, s, p + 1)

\* value in keywords
InKeywords(value, kws) == \E k \in kws : Spelling(k) = value

\* kind = value, for a value that is in keywords
KeywordKind(value, kws) == CHOOSE k \in kws : Spelling(k) = value

\* match.group("quoted")
Quoted(s, m) == Sub(s, m.start + 1, m.end - 1)

(***************************************************************************)
(* _tokenize: one action per branch of the loop over rules.finditer(source)*)
(* line_count holds line_num.                                              *)
(***************************************************************************)
IsPartial == config \in DOMAIN Partials

ExprMatch == NextRuleMatch(Partials[config].rules, source, pos)

Advance(m, yielded, linenum) ==
    /\ pos' = m.end
    /\ line_count' = linenum
    /\ tokens' = tokens \o yielded
    /\ last' = [kind |-> m.kind, from |-> pos, start |-> m.start, end |-> m.end,
                first |-> Len(tokens), lstrip |-> FALSE, trim |-> FALSE,
                prev |-> last.kind, prevtrim |-> FALSE]
    /\ UNCHANGED <<source, config, lstrip, cachevars>>

Raise(msg, value, linenum) ==
    /\ status' = "error"
    /\ err' = LiquidSyntaxError(msg, value, linenum)

\* the kind and the value of the token yielded for a match that reaches the
\* yield statement without passing through the operator table
TokenizeKind(m, value, kws) ==
    IF m.kind = token.TOKEN_IDENTIFIER /\ InKeywords(value, kws)
    THEN KeywordKind(value, kws)
    ELSE m.kind

TokenizeValue(s, m, value, kws) ==
    IF m.kind = token.TOKEN_IDENTIFIER /\ InKeywords(value, kws) THEN value
    ELSE IF m.kind = token.TOKEN_STRING THEN Quoted(s, m)
    ELSE value

OnYield(m, kws) ==
    /\ m.kind \notin {"none", "OP", "NEWLINE", "SKIP", token.TOKEN_ILLEGAL}
    /\ Advance(m, << Token(line_count, TokenizeKind(m, MatchText(m), kws),
                           TokenizeValue(source, m, MatchText(m), kws)) >>,
               line_count)
    /\ UNCHANGED <<status, err, lookups>>

TokenizeYield == status = "running" /\ IsPartial
    /\ OnYield(ExprMatch, Partials[config].keywords)

\* kind = operators[value], or the KeyError turned into a syntax error
OnOp(m, value) ==
    /\ m.kind = "OP"
    /\ lookups' = lookups + 1
    /\ IF value \in DOMAIN operators
       THEN /\ Advance(m, << Token(line_count, operators[value], value) >>,
                       line_count)
            /\ UNCHANGED <<status, err>>
       ELSE /\ Advance(m, <<>>, line_count)
            /\ Raise("unknown operator", value, line_count)

TokenizeOp == status = "running" /\ IsPartial /\ OnOp(ExprMatch, MatchText(ExprMatch))

OnNewline(m) ==
    /\ m.kind = "NEWLINE"
    /\ Advance(m, <<>>, line_count + 1)
    /\ UNCHANGED <<status, err, lookups>>

TokenizeNewline == status = "running" /\ IsPartial /\ OnNewline(ExprMatch)

OnSkip(m) ==
    /\ m.kind = "SKIP"
    /\ Advance(m, <<>>, line_count)
    /\ UNCHANGED <<status, err, lookups>>

TokenizeSkip == status = "running" /\ IsPartial /\ OnSkip(ExprMatch)

\* the tokens yielded by the branch that raises
IllegalTokensYield(linenum, value) == << Token(linenum, token.TOKEN_ILLEGAL, value) >>

IllegalTokens(linenum, value) == <<>>

OnIllegal(m) ==
    /\ m.kind = token.TOKEN_ILLEGAL
    /\ Advance(m, IllegalTokens(line_count, MatchText(m)), line_count)
    /\ Raise("unexpected", MatchText(m), line_count)
    /\ UNCHANGED lookups

TokenizeIllegal == status = "running" /\ IsPartial /\ OnIllegal(ExprMatch)

OnEnd(m) ==
    /\ m.kind = "none"
    /\ status' = "done"
    /\ UNCHANGED <<source, config, pos, line_count, lstrip, tokens, last, err,
                   lookups, cachevars>>

TokenizeEnd == status = "running" /\ IsPartial /\ OnEnd(ExprMatch)

TokenizeNext ==
    \/ TokenizeYield
    \/ TokenizeOp
    \/ TokenizeNewline
    \/ TokenizeSkip
    \/ TokenizeIllegal
    \/ TokenizeEnd

(***************************************************************************)
(* liquid/expressions/loop/lex.py: token_rules, keywords and tokenize      *)
(***************************************************************************)
token_rules ==
    << Rule(token.TOKEN_IDENTINDEX, Re("identindex")),
       Rule(token.TOKEN_IDENTSTRING, Re("identstring")),
       Rule(token.TOKEN_RANGE, Lit(<<".", ".">>)),
       Rule(token.TOKEN_FLOAT, Re("sfloat")),
       Rule(token.TOKEN_INTEGER, Re("sint")),
       Rule(token.TOKEN_DOT, Lit(<<".">>)),
       Rule(token.TOKEN_IDENTIFIER, IDENTIFIER_PATTERN),
       Rule(token.TOKEN_LPAREN, Lit(<<"(">>)),
       Rule(token.TOKEN_RPAREN, Lit(<<")">>)),
       Rule(token.TOKEN_LBRACKET, Lit(<<"[">>)),
       Rule(token.TOKEN_RBRACKET, Lit(<<"]">>)),
       Rule(token.TOKEN_COLON, Lit(<<":">>)),
       Rule(token.TOKEN_PIPE, Lit(<<"|">>)),
       Rule(token.TOKEN_NEWLINE, Lit(<<"\n">>)),
       Rule(token.TOKEN_SKIP, Re("blanksr")),
       Rule(token.TOKEN_ILLEGAL, Re("any")) >>

keywords ==
    {token.TOKEN_IN, token.TOKEN_OFFSET, token.TOKEN_LIMIT, token.TOKEN_REVERSED, token.TOKEN_COLS,
     token.TOKEN_CONTINUE}

\* match.group(GROUP_IDENTINDEX): the integer between the brackets
IdentIndexGroup(s, b) == Sub(s, b, IndexBody(s, b))

\* match.group(GROUP_IDENTQUOTED): the text between the quotes
IdentQuotedGroup(s, b) == Sub(s, b + 1, StringEnd(s, b) - 1)

IsLoopLexer == config = "tokenize"

LoopMatch == NextRuleMatch(token_rules, source, pos)

LoopKind(m, value) ==
    IF m.kind = token.TOKEN_IDENTIFIER /\ InKeywords(value, keywords)
    THEN KeywordKind(value, keywords)
    ELSE IF m.kind = token.TOKEN_IDENTSTRING THEN token.TOKEN_IDENTIFIER
    ELSE m.kind

LoopValue(s, m, value) ==
    IF m.kind = token.TOKEN_IDENTIFIER /\ InKeywords(value, keywords) THEN value
    ELSE IF m.kind = token.TOKEN_IDENTINDEX
    THEN IdentIndexGroup(s, BracketOpen(s, IdentEnd(s, m.start, FALSE)))
    ELSE IF m.kind = token.TOKEN_IDENTSTRING
    THEN IdentQuotedGroup(s, BracketOpen(s, IdentEnd(s, m.start, FALSE)))
    ELSE value

\* line_num += newlines, then the yield with the advanced line_num
OnLoopYield(m, linenum) ==
    /\ m.kind \notin {"none", token.TOKEN_NEWLINE, token.TOKEN_SKIP, token.TOKEN_ILLEGAL}
    /\ Advance(m, << Token(linenum, LoopKind(m, MatchText(m)),
                           LoopValue(source, m, MatchText(m))) >>,
               linenum)
    /\ UNCHANGED <<status, err, lookups>>

LoopTokenizeYield == status = "running" /\ IsLoopLexer
    /\ OnLoopYield(LoopMatch, line_count + CountNewlines(MatchText(LoopMatch)))

OnLoopNewline(m) ==
    /\ m.kind = token.TOKEN_NEWLINE
    /\ Advance(m, <<>>, line_count + 1)
    /\ UNCHANGED <<status, err, lookups>>

LoopTokenizeNewline == status = "running" /\ IsLoopLexer /\ OnLoopNewline(LoopMatch)

OnLoopSkip(m) ==
    /\ m.kind = token.TOKEN_SKIP
    /\ Advance(m, <<>>, line_count)
    /\ UNCHANGED <<status, err, lookups>>

LoopTokenizeSkip == status = "running" /\ IsLoopLexer /\ OnLoopSkip(LoopMatch)

LoopTokenizeIllegal == status = "running" /\ IsLoopLexer /\ OnIllegal(LoopMatch)

LoopTokenizeEnd == status = "running" /\ IsLoopLexer /\ OnEnd(LoopMatch)

LoopTokenizeNext ==
    \/ LoopTokenizeYield
    \/ LoopTokenizeNewline
    \/ LoopTokenizeSkip
    \/ LoopTokenizeIllegal
    \/ LoopTokenizeEnd

(***************************************************************************)
(* Inputs of the expression lexers: one of the tokenizers, and an          *)
(* expression that is the concatenation of at most MaxExprPieces pieces.   *)
(***************************************************************************)
MaxExprPieces == 4

ExprPieces ==
    { <<" ">>, <<"\n">>, <<"~">>, <<"=">>, <<"'">>,
      Spelling(token.TOKEN_IN), Spelling(token.TOKEN_CONTINUE) }

ExprInit == \E t \in DOMAIN Partials \cup {"tokenize"} : LexInit(ExprPieces, MaxExprPieces, t)

ExprNext == TokenizeNext \/ LoopTokenizeNext

ExprSpec == ExprInit /\ [][ExprNext]_vars

(***************************************************************************)
(* tokenize_liquid_expression: the lines of a "liquid" tag.  A match of    *)
(* LIQUID_EXPRESSION_RE at offset q is blanks, the name (a run of word     *)
(* characters), blanks, the expression (the rest of the line) and the      *)
(* newline or the end of the source.                                       *)
(***************************************************************************)
\* the offset of the first newline at or after i, Len(s) if none
LineEnd(s, i) == FindChar(s, i, "\n")

\* (\n|$) at the end of the line: the newline is part of the match
LiquidClose(s, e) == IF e < Len(s) THEN e + 1 ELSE e

LiquidLineAt(s, q) ==
    IF IsWord(At(s, SkipBlank(s, q)))
    THEN [kind |-> "line", start |-> q, end |-> LiquidClose(s, LineEnd(s, q))]
    ELSE NoMatch

RECURSIVE NextLiquidLine(_, _)
NextLiquidLine(s, p) ==
    IF p >= Len(s) THEN NoMatch
    ELSE IF LiquidLineAt(s, p).kind # "none" THEN LiquidLineAt(s, p)
    ELSE NextLiquidLine(s, p + 1)

\* match.group("name")
LiquidName(s, m) ==
    Sub(s, SkipBlank(s, m.start), SkipWord(s, SkipBlank(s, m.start)))

\* match.group("expr")
LiquidExpr(s, m) ==
    Sub(s, SkipBlank(s, SkipWord(s, SkipBlank(s, m.start))), LineEnd(s, m.start))

LiquidTokens(linenum, name, expr) ==
    << Token(linenum, token.TOKEN_TAG, name) >>
    \o (IF expr # <<>> THEN << Token(linenum, token.TOKEN_EXPRESSION, expr) >> ELSE <<>>)

LiquidMatch == NextLiquidLine(source, pos)

OnLiquidLine(m) ==
    /\ m.kind = "line"
    /\ Consume(m, LiquidTokens(line_count, LiquidName(source, m),
                               LiquidExpr(source, m)), FALSE)
    /\ UNCHANGED <<lstrip, status, err>>

LiquidLine == status = "running" /\ OnLiquidLine(LiquidMatch)

LiquidEnd == status = "running" /\ OnEnd(LiquidMatch)

LiquidNext == LiquidLine \/ LiquidEnd

MaxLiquidPieces == 5

LiquidPieces == { <<"a">>, <<" ">>, <<"\n">>, <<"-">> }

LiquidInit == LexInit(LiquidPieces, MaxLiquidPieces, "tokenize_liquid_expression")

LiquidSpec == LiquidInit /\ [][LiquidNext]_vars

(***************************************************************************)
(* get_lexer under functools.lru_cache.  A delimiter 4-tuple is a key; a   *)
(* lexer is the key it was compiled for and the number of the call of      *)
(* compile_liquid_rules that built it.  cache lists the entries from the   *)
(* least to the most recently used.                                        *)
(***************************************************************************)
\* the maxsize of a bare @lru_cache
maxsize == 128

\* the number of distinct 4-tuples requested, and of compilations
MaxKeys == 130

MaxCompiled == 132

\* the 4-tuple that is requested again after its first request
ProbeKey == 1

\* the position of the entry of key k, 0 if there is none
IndexOfKey(c, k) ==
    IF \E i \in 1..Len(c) : c[i].key = k
    THEN CHOOSE i \in 1..Len(c) : c[i].key = k
    ELSE 0

Without(c, i) == SubSeq(c, 1, i - 1) \o SubSeq(c, i + 1, Len(c))

\* a full cache drops its least recently used entry to make room
MakeRoom(c) == IF Len(c) >= maxsize THEN Tail(c) ELSE c

\* the 4-tuples that may be requested now: the probe, once it has been
\* requested, and the least 4-tuple never requested so far
Requestable ==
    {k \in {ProbeKey} : k <= requested} \cup {k \in {requested + 1} : k <= MaxKeys}

\* a hit: the cached lexer is returned and becomes the most recently used
OnHit(k, i) ==
    /\ i > 0
    /\ returned' = cache[i]
    /\ cache' = Without(cache, i) \o << cache[i] >>
    /\ UNCHANGED <<compiled, requested, lexvars>>

GetLexerHit == \E k \in Requestable : OnHit(k, IndexOfKey(cache, k))

\* a miss: compile_liquid_rules runs, and the new lexer is stored and returned
OnMiss(k, i) ==
    /\ i = 0
    /\ compiled < MaxCompiled
    /\ compiled' = compiled + 1
    /\ requested' = (IF k > requested THEN k ELSE requested)
    /\ returned' = [key |-> k, lexer |-> compiled + 1]
    /\ cache' = MakeRoom(cache) \o << [key |-> k, lexer |-> compiled + 1] >>
    /\ UNCHANGED lexvars

GetLexerMiss == \E k \in Requestable : OnMiss(k, IndexOfKey(cache, k))

CacheNext == GetLexerHit \/ GetLexerMiss

CacheInit == LexInit({}, 0, DefaultConfig)

CacheSpec == CacheInit /\ [][CacheNext]_vars

(***************************************************************************)
(* Properties of the template lexer                                        *)
(***************************************************************************)
\* the least offset at or after i where d occurs in s, Len(s) + 1 if none
RECURSIVE FirstOccurrence(_, _, _)
FirstOccurrence(s, i, d) ==
    IF i > Len(s) \/ StartsWithAt(s, i, d) THEN i
    ELSE FirstOccurrence(s, i + 1, d)

\* the tokens yielded by the latest iteration
Yielded == Sub(tokens, last.first, Len(tokens))

LastText == Sub(source, last.start, last.end)

NewlinesBefore(i) == CountNewlines(Sub(source, 0, i))

\* C1: in every delimiter configuration, a literal match that begins at a
\* configured opening delimiter (a region that was never closed) raises the
\* syntax error instead of yielding a literal token, and the error is raised
\* only for a literal match that begins at a configured opening delimiter.
C1_UnterminatedRaises ==
    last.kind # "none" =>
        /\ (last.kind = token.TOKEN_LITERAL /\ OpenLen(source, last.start, config) > 0)
               => (status = "error" /\ Yielded = <<>>)
        /\ status = "error"
               => (last.kind = token.TOKEN_LITERAL
                   /\ OpenLen(source, last.start, config) > 0)

\* C2: the start of a literal match is stripped exactly when the match just
\* before it is a statement or tag closed with a trim marker, its end exactly
\* when the opening delimiter after it is followed by a trim marker, and a
\* literal that is empty after trimming yields no token.
C2_Claimed(left, right) ==
    RStripIf(IF left THEN LStripStr(LastText) ELSE LastText, right)

C2_TrimExactly ==
    (last.kind = token.TOKEN_LITERAL /\ status # "error") =>
        LET left == last.prev \in {token.TOKEN_STATEMENT, "TAG"} /\ last.prevtrim
            open == OpenLen(source, last.end, config)
            right == open > 0 /\ At(source, last.end + open) = "-"
            v == C2_Claimed(left, right)
        IN  IF v = <<>> THEN Yielded = <<>>
            ELSE Len(Yielded) = 1 /\ Yielded[1].value = v

\* C3: a closed tag region that is not a raw block yields a tag token whose
\* value is the word after the opening delimiter, its trim marker and
\* whitespace (possibly empty), then an expression token exactly when the
\* rest, without surrounding whitespace and the trailing trim marker, is not
\* empty; a closed tag is never matched as literal text.
C3_DropTrim(r) ==
    IF r # <<>> /\ r[Len(r)] = "-" THEN Sub(r, 0, Len(r) - 1) ELSE r

C3_Rest(n, q) == RStripStr(LStripStr(C3_DropTrim(Sub(source, n, q))))

C3_TagAsClaimed(a, q) ==
    \E b \in a..q, n \in a..q :
        /\ b <= n
        /\ \A k \in a + 1..b : IsSpace(source[k])
        /\ ~IsSpace(At(source, b))
        /\ \A k \in b + 1..n : IsWord(source[k])
        /\ ~IsWord(At(source, n))
        /\ Yielded[1].type = token.TOKEN_TAG
        /\ Yielded[1].value = Sub(source, b, n)
        /\ IF C3_Rest(n, q) = <<>> THEN Len(Yielded) = 1
           ELSE /\ Len(Yielded) = 2
                /\ Yielded[2].type = token.TOKEN_EXPRESSION
                /\ Yielded[2].value = C3_Rest(n, q)

C3_TagRegion ==
    last.kind # "none" =>
        LET a == last.start + Len(config.tag_s)
            q == FirstOccurrence(source, a, config.tag_e)
            closed == StartsWithAt(source, last.start, config.tag_s)
                      /\ q <= Len(source)
        IN  /\ closed => last.kind \in {"TAG", "RAW"}
            /\ last.kind = "TAG" =>
                   /\ closed
                   /\ last.end = q + Len(config.tag_e)
                   /\ Len(Yielded) >= 1
                   /\ C3_TagAsClaimed(IF At(source, a) = "-" THEN a + 1 ELSE a, q)

\* a tag with a name and an expression was lexed
C3_Witness ==
    /\ last.kind = "TAG"
    /\ Len(Yielded) = 2
    /\ Yielded[1].value # <<>>

\* C6: the matches are contiguous and cover the source, every token carries
\* 1 + the number of newlines before its match, and the counter is advanced
\* by the newlines of a match only after its tokens are numbered.
C6_LineAccounting ==
    /\ last.kind # "none" => (last.start = last.from /\ pos = last.end)
    /\ status = "done" => pos = Len(source)
    /\ \A i \in 1..Len(Yielded) : Yielded[i].linenum = 1 + NewlinesBefore(last.start)
    /\ line_count = 1 + NewlinesBefore(pos)

\* a raw block spanning two lines was lexed on line 2
C6_Witness ==
    /\ last.kind = "RAW"
    /\ Len(Yielded) = 1
    /\ Yielded[1].linenum = 2
    /\ line_count = 3

\* C9: every literal token yielded has a non-empty value, also the one made
\* from the interior of a raw block.
C9_LiteralNonEmpty ==
    \A i \in 1..Len(tokens) :
        tokens[i].type = token.TOKEN_LITERAL => tokens[i].value # <<>>

(***************************************************************************)
(* Properties of the liquid-line lexer                                     *)
(***************************************************************************)
\* C4: every TAG token of tokenize_liquid_expression, and its EXPRESSION
\* token, carries line number 1 + the number of newline characters of the
\* source before the start of its line, blank lines included.
C4_LineOfTag ==
    last.kind = "line" =>
        \A i \in 1..Len(Yielded) :
            Yielded[i].linenum = 1 + NewlinesBefore(SkipBlank(source, last.start))

(***************************************************************************)
(* Properties of the lexer cache                                           *)
(***************************************************************************)
C5_Kept == \A i \in 1..Len(cache) : \E n \in 1..Len(cache') : cache'[n] = cache[i]

C5_Reused == returned'.key <= requested => compiled' = compiled

\* C5: whatever the number of distinct 4-tuples requested, a get_lexer call
\* removes or replaces no entry of the cache, and a call with a 4-tuple
\* that was requested before compiles nothing.
C5_AppendOnly == [][C5_Kept /\ C5_Reused]_vars

(***************************************************************************)
(* Properties of the expression lexers                                     *)
(***************************************************************************)
C7_Rules == IF config = "tokenize" THEN token_rules ELSE Partials[config].rules

\* the character at offset p is matched by the catch-all rule only
C7_OnlyIllegal(p) ==
    /\ p < Len(source)
    /\ \A i \in 1..Len(C7_Rules) :
           C7_Rules[i].kind # token.TOKEN_ILLEGAL => PatEnd(C7_Rules[i].pat, source, p) < 0

C7_Step ==
    /\ status = "running"
    /\ Len(tokens') >= Len(tokens)
    /\ SubSeq(tokens', 1, Len(tokens)) = tokens
    /\ C7_OnlyIllegal(pos) =>
           /\ tokens' = tokens
           /\ lookups' = lookups
           /\ status' = "error"
           /\ err' = LiquidSyntaxError("unexpected", << At(source, pos) >>, line_count)

\* C7: in _tokenize and in the loop tokenize, tokens are only ever appended;
\* when the scan stands at a character that only the illegal rule matches,
\* the step delivers no token, looks nothing up in the operator table and
\* raises "unexpected" with that character and the current line number;
\* after an error no step is taken, so no further token is produced.
C7_IllegalStops == [][C7_Step]_vars

C7_Witness ==
    /\ status = "error"
    /\ err.msg = "unexpected"
    /\ err.linenum = 2
    /\ Len(tokens) >= 1

C8_Keywords ==
    {token.TOKEN_IN, token.TOKEN_OFFSET, token.TOKEN_LIMIT, token.TOKEN_REVERSED, token.TOKEN_COLS,
     token.TOKEN_CONTINUE}

\* C8: in tokenize_loop_expression and in the loop tokenize, a match of the
\* identifier rule yields one token whose kind is the keyword when its text
\* is exactly in, offset, limit, reversed, cols or continue, and the
\* identifier kind for any other text.
C8_KeywordExactly ==
    (config \in {"tokenize_loop_expression", "tokenize"}
     /\ last.kind = token.TOKEN_IDENTIFIER) =>
        /\ Len(Yielded) = 1
        /\ Yielded[1].value = LastText
        /\ IF \E k \in C8_Keywords : Spelling(k) = LastText
           THEN \E k \in C8_Keywords : Spelling(k) = LastText /\ Yielded[1].type = k
           ELSE Yielded[1].type = token.TOKEN_IDENTIFIER

C10_HasStringRule ==
    /\ config \in DOMAIN Partials
    /\ \E i \in 1..Len(Partials[config].rules) :
           Partials[config].rules[i].kind = token.TOKEN_STRING

\* C10: in every grammar of _tokenize with a string rule, every token
\* carries line number 1 + the number of newline characters of the source
\* before the start of its match, also after a quoted string that holds a
\* newline.
C10_LineOfMatch ==
    (C10_HasStringRule /\ last.kind # "none") =>
        \A i \in 1..Len(Yielded) :
            Yielded[i].linenum = 1 + NewlinesBefore(last.start)

====
